---- MODULE Spec2Model ----
(***************************************************************************)
(* Skill matching and mock AI endpoints of the SIP repository.             *)
(*                                                                         *)
(* Four deployables answer HTTP requests:                                  *)
(*   api/ai/match.py            handler.do_POST   (skill matching)         *)
(*   api/ai/recommendations.py  handler.do_POST   (mock recommendations)   *)
(*   apps/web-app/api/ai/index.py handler.do_POST (routes on the path)     *)
(*   apps/ai-engine/main.py     the FastAPI application                    *)
(*                                                                         *)
(* Text is a sequence of one-character strings.  A float that the code     *)
(* computes as len(a) / len(b) is kept as the exact fraction, and a float  *)
(* that it reports after round(x, 2) is kept in hundredths (0.85 is 85).   *)
(***************************************************************************)
EXTENDS Integers, Sequences, FiniteSets, TLC

VARIABLES
    hashSeed,   \* the string-hash salt of the running interpreter
    phase,      \* "idle" | "received" | "responded"
    req,        \* the request being served
    resp,       \* the response to it
    prev        \* observer: the last exchange that was delivered

vars == <<hashSeed, phase, req, resp, prev>>

(***************************************************************************)
(* Bounds of the model.                                                    *)
(***************************************************************************)
\* Largest requirement list of the sized requests (k of n skills matched).
MaxReq == 30
\* Longest list of the mixed-case requests.
MaxLen == 2
\* Number of hash salts an interpreter may start with.
NumSeeds == 2

(***************************************************************************)
(* Text.                                                                   *)
(***************************************************************************)
\* The characters of the model in ASCII order.
Alphabet ==
    <<" ", "!", ",", ".", ":",
      "A", "B", "C", "D", "E", "F", "G", "H", "I", "J", "K", "L", "M",
      "N", "O", "P", "Q", "R", "S", "T", "U", "V", "W", "X", "Y", "Z",
      "a", "b", "c", "d", "e", "f", "g", "h", "i", "j", "k", "l", "m",
      "n", "o", "p", "q", "r", "s", "t", "u", "v", "w", "x", "y", "z">>

UpperLetters ==
    <<"A", "B", "C", "D", "E", "F", "G", "H", "I", "J", "K", "L", "M",
      "N", "O", "P", "Q", "R", "S", "T", "U", "V", "W", "X", "Y", "Z">>

LowerLetters ==
    <<"a", "b", "c", "d", "e", "f", "g", "h", "i", "j", "k", "l", "m",
      "n", "o", "p", "q", "r", "s", "t", "u", "v", "w", "x", "y", "z">>

Code(c) == CHOOSE i \in 1..Len(Alphabet) : Alphabet[i] = c

IsUpperChar(c) == \E i \in 1..Len(UpperLetters) : UpperLetters[i] = c

\* str.lower() on one character.
LowerChar(c) ==
    IF IsUpperChar(c)
    THEN LowerLetters[CHOOSE i \in 1..Len(UpperLetters) : UpperLetters[i] = c]
    ELSE c

\* A lower() that leaves the case as it is.
KeepCase(s) == s

\* s.lower(): every cased character mapped, nothing trimmed or dropped.
lower(s) == [i \in 1..Len(s) |-> LowerChar(s[i])]

RECURSIVE Join(_, _)
\* sep.join(parts)
Join(parts, sep) ==
    IF Len(parts) = 0 THEN <<>>
    ELSE IF Len(parts) = 1 THEN parts[1]
    ELSE parts[1] \o sep \o Join(Tail(parts), sep)

ConsiderLearning ==
    <<"C", "o", "n", "s", "i", "d", "e", "r", " ",
      "l", "e", "a", "r", "n", "i", "n", "g", ":", " ">>

CommaSpace == <<",", " ">>

StrongMatch ==
    <<"S", "t", "r", "o", "n", "g", " ", "m", "a", "t", "c", "h", "!", " ",
      "A", "p", "p", "l", "y", " ", "w", "i", "t", "h", " ",
      "c", "o", "n", "f", "i", "d", "e", "n", "c", "e", ".">>

GoodMatch ==
    <<"G", "o", "o", "d", " ", "m", "a", "t", "c", "h", ".", " ",
      "H", "i", "g", "h", "l", "i", "g", "h", "t", " ", "y", "o", "u", "r", " ",
      "t", "r", "a", "n", "s", "f", "e", "r", "a", "b", "l", "e", " ",
      "s", "k", "i", "l", "l", "s", ".">>

FocusFirst ==
    <<"F", "o", "c", "u", "s", " ", "o", "n", " ",
      "b", "u", "i", "l", "d", "i", "n", "g", " ",
      "r", "e", "q", "u", "i", "r", "e", "d", " ",
      "s", "k", "i", "l", "l", "s", " ", "f", "i", "r", "s", "t", ".">>

(***************************************************************************)
(* Sets of strings and their iteration order.                              *)
(*                                                                         *)
(* list(a_set) walks the set's hash table, so the order of the strings is  *)
(* a function of their hashes, and the hash of a string is salted once per *)
(* interpreter (PYTHONHASHSEED).  Within one interpreter the same set      *)
(* built the same way lists in the same order; another interpreter may     *)
(* list it in another.                                                     *)
(***************************************************************************)
RECURSIVE StrHash(_, _)
StrHash(seed, s) ==
    IF Len(s) = 0 THEN 7 + 13 * seed
    ELSE (StrHash(seed, SubSeq(s, 1, Len(s) - 1)) * (31 + 6 * seed)
          + Code(s[Len(s)])) % 251

RECURSIVE LexLess(_, _)
LexLess(s, t) ==
    IF Len(t) = 0 THEN FALSE
    ELSE IF Len(s) = 0 THEN TRUE
    ELSE IF s[1] # t[1] THEN Code(s[1]) < Code(t[1])
    ELSE LexLess(Tail(s), Tail(t))

\* (hash, string) pairs in the order of the table walk: by hash, and two
\* strings of one hash by their text.
PairLess(p, q) == p[1] < q[1] \/ (p[1] = q[1] /\ LexLess(p[2], q[2]))

InsertPair(sorted, p) ==
    LET i == Cardinality({j \in 1..Len(sorted) : PairLess(sorted[j], p)})
    IN  SubSeq(sorted, 1, i) \o <<p>> \o SubSeq(sorted, i + 1, Len(sorted))

RECURSIVE SortPairs(_)
SortPairs(P) ==
    IF P = {} THEN <<>>
    ELSE LET p == CHOOSE q \in P : TRUE
         IN  InsertPair(SortPairs(P \ {p}), p)

\* list(S) in the interpreter salted with seed.
ListOf(S, seed) ==
    LET sorted == SortPairs({<<StrHash(seed, x), x>> : x \in S})
    IN  [i \in 1..Len(sorted) |-> sorted[i][2]]

Range(f) == {f[i] : i \in DOMAIN f}

Min(a, b) == IF a < b THEN a ELSE b

(***************************************************************************)
(* JSON values, request bodies and their decoding.                         *)
(***************************************************************************)
JStr(s) == [t |-> "str", s |-> s]
JNum    == [t |-> "num", s |-> <<>>]
JNull   == [t |-> "null", s |-> <<>>]

IsText(e) == e.t = "str"

\* A decoded JSON value: an object with the keys present in it, or not one.
JObject(keys, ss, is, text) ==
    [j |-> "object", keys |-> keys, student_skills |-> ss,
     internship_skills |-> is, text |-> text]

EmptyObject == JObject({}, <<>>, <<>>, <<>>)

JArray == [j |-> "array", keys |-> {}, student_skills |-> <<>>,
           internship_skills |-> <<>>, text |-> <<>>]

\* The bytes of a request body: none, not JSON, or the JSON text of a value.
\* (json of a body that holds no JSON value is what a decoder without the
\* recovery would hand on: no value at all.)
NoValue == [j |-> "none", keys |-> {}, student_skills |-> <<>>,
            internship_skills |-> <<>>, text |-> <<>>]

EmptyBody     == [form |-> "empty", json |-> NoValue]
MalformedBody == [form |-> "malformed", json |-> NoValue]
JsonBody(v)   == [form |-> "json", json |-> v]

\* A decoding without the recovery: whatever json.loads made of the body.
DecodeWithoutRecovery(body) == body.json

\* try: data = json.loads(body) if body else {}   except: data = {}
Decode(body) ==
    IF body.form = "json" THEN body.json ELSE EmptyObject

\* data.get(key, [])
GetList(data, key) ==
    IF key \in data.keys
    THEN IF key = "student_skills" THEN data.student_skills
         ELSE data.internship_skills
    ELSE <<>>

\* data.get('text', '')
GetText(data) == IF "text" \in data.keys THEN data.text ELSE <<>>

(***************************************************************************)
(* Outcomes of a computation: a value, or an exception that escapes it.    *)
(***************************************************************************)
NoPayload == [kind |-> "none"]

Return(v) == [ok |-> TRUE, error |-> "none", value |-> v]
Raise(e)  == [ok |-> FALSE, error |-> e, value |-> NoPayload]

(***************************************************************************)
(* Floats of the matching code.                                            *)
(*                                                                         *)
(* match_score is the double nearest to num / den.  For den below 40 the   *)
(* double compares with the literals 0.7 and 0.5 as the fraction does      *)
(* (7 / 10 and 0.7 are the same double), and round(x, 2) is the nearest    *)
(* hundredth of the fraction; the only exact halves are the odd eighths,   *)
(* which are exact doubles and round half to even.                         *)
(***************************************************************************)
Fraction(n, d) == [num |-> n, den |-> d]

\* match_score > 0.7
Above07(x) == 10 * x.num > 7 * x.den

\* match_score > 0.5
Above05(x) == 2 * x.num > x.den

\* A rounding that cuts the digits after the second.
Round2Truncated(x) == (100 * x.num) \div x.den

\* round(match_score, 2), in hundredths
Round2(x) ==
    LET q == (100 * x.num) \div x.den
        r == (100 * x.num) % x.den
    IN  IF 2 * r < x.den THEN q
        ELSE IF 2 * r > x.den THEN q + 1
        ELSE IF q % 2 = 0 THEN q ELSE q + 1

(***************************************************************************)
(* List operations of the matching code.                                   *)
(***************************************************************************)
\* An insert at the head in place of the append.
ListPrepend(l, x) == <<x>> \o l

\* recommendations.append(x)
ListAppend(l, x) == l \o <<x>>

\* A slice of four.
FirstFour(l) == SubSeq(l, 1, Min(4, Len(l)))

\* some_list[:3]
FirstThree(l) == SubSeq(l, 1, Min(3, Len(l)))

\* set(s.lower() for s in entries); an entry that is no str has no lower().
AllText(entries) == \A i \in DOMAIN entries : IsText(entries[i])

LowerSet(entries) == {lower(entries[i].s) : i \in DOMAIN entries}

MatchPayload(score, matched, gaps, recs) ==
    [kind |-> "match", match_score |-> score, matched_skills |-> matched,
     skill_gaps |-> gaps, recommendations |-> recs]

(***************************************************************************)
(* api/ai/match.py: the body of do_POST after the headers are sent.        *)
(***************************************************************************)
MatchDoPost(data, seed) ==
    IF data.j # "object" THEN Raise("AttributeError")
    ELSE IF ~AllText(GetList(data, "student_skills")) THEN Raise("AttributeError")
    ELSE IF ~AllText(GetList(data, "internship_skills")) THEN Raise("AttributeError")
    ELSE
    LET student_skills    == LowerSet(GetList(data, "student_skills"))
        internship_skills == LowerSet(GetList(data, "internship_skills"))
        matched     == student_skills \cap internship_skills
        skill_gaps  == internship_skills \ student_skills
        match_score == IF Cardinality(internship_skills) = 0
                       THEN Fraction(0, 1)
                       ELSE Fraction(Cardinality(matched),
                                     Cardinality(internship_skills))
        gap_list    == ListOf(skill_gaps, seed)
        rec0        == <<>>
        rec1        == IF Cardinality(skill_gaps) > 0
                       THEN ListAppend(rec0, ConsiderLearning
                                \o Join(FirstThree(gap_list), CommaSpace))
                       ELSE rec0
        rec2        == IF Above07(match_score) THEN ListAppend(rec1, StrongMatch)
                       ELSE IF Above05(match_score) THEN ListAppend(rec1, GoodMatch)
                       ELSE ListAppend(rec1, FocusFirst)
    IN  Return(MatchPayload(Round2(match_score), ListOf(matched, seed),
                            gap_list, rec2))

(***************************************************************************)
(* apps/web-app/api/ai/index.py: the endpoint methods of the handler.      *)
(***************************************************************************)
WebMatchSkills(data, seed) ==
    IF data.j # "object" THEN Raise("AttributeError")
    ELSE IF ~AllText(GetList(data, "student_skills")) THEN Raise("AttributeError")
    ELSE IF ~AllText(GetList(data, "internship_skills")) THEN Raise("AttributeError")
    ELSE
    LET student_skills    == LowerSet(GetList(data, "student_skills"))
        internship_skills == LowerSet(GetList(data, "internship_skills"))
        matched     == student_skills \cap internship_skills
        skill_gaps  == internship_skills \ student_skills
        match_score == IF Cardinality(internship_skills) = 0
                       THEN Fraction(0, 1)
                       ELSE Fraction(Cardinality(matched),
                                     Cardinality(internship_skills))
        gap_list    == ListOf(skill_gaps, seed)
        rec0        == <<>>
        rec1        == IF Cardinality(skill_gaps) > 0
                       THEN ListAppend(rec0, ConsiderLearning
                                \o Join(FirstThree(gap_list), CommaSpace))
                       ELSE rec0
        rec2        == IF Above07(match_score) THEN ListAppend(rec1, StrongMatch)
                       ELSE IF Above05(match_score) THEN ListAppend(rec1, GoodMatch)
                       ELSE ListAppend(rec1, FocusFirst)
    IN  Return(MatchPayload(Round2(match_score), ListOf(matched, seed),
                            gap_list, rec2))

Recommendation(id, score, reasoning) ==
    [internship_id |-> id, match_score |-> score, reasoning |-> reasoning]

\* A listing whose second score counts the skills of the request.
WebGetRecommendationsOfData(data) ==
    Return([kind |-> "recommendations",
            items |-> <<Recommendation("mock-id-1", 85,
                            "Strong match based on React and TypeScript skills"),
                        Recommendation("mock-id-2",
                            72 + Len(data.student_skills),
                            "Good fit for Python and ML background")>>])

WebGetRecommendations(data) ==
    Return([kind |-> "recommendations",
            items |-> <<Recommendation("mock-id-1", 85,
                            "Strong match based on React and TypeScript skills"),
                        Recommendation("mock-id-2", 72,
                            "Good fit for Python and ML background")>>])

WebGenerateEmbeddings(data) ==
    IF data.j # "object" THEN Raise("AttributeError")
    ELSE Return([kind |-> "embeddings", text |-> GetText(data),
                 embedding_length |-> 1536, status |-> "generated"])

ResumeAnalysis ==
    [kind |-> "resume",
     extracted_skills |-> <<"Python", "JavaScript", "React", "SQL">>,
     experience_level |-> "Intermediate",
     suggested_roles |-> <<"Full Stack Developer", "Backend Developer">>,
     confidence |-> 82]

WebAnalyzeResume(data) == Return(ResumeAnalysis)

\* The if / elif chain of do_POST over the substrings the path contains.
WebRoute(path, data, seed) ==
    IF "/match/skills" \in path THEN WebMatchSkills(data, seed)
    ELSE IF "/recommendations" \in path THEN WebGetRecommendations(data)
    ELSE IF "/embeddings/generate" \in path THEN WebGenerateEmbeddings(data)
    ELSE IF "/analyze/resume" \in path THEN WebAnalyzeResume(data)
    ELSE Return([kind |-> "error", error |-> "Not found"])

(***************************************************************************)
(* api/ai/recommendations.py: the body of do_POST after the headers.       *)
(***************************************************************************)
RecommendationsDoPost(data) ==
    IF data.j # "object" THEN Raise("AttributeError")
    ELSE Return([kind |-> "recommendations",
                 items |-> <<Recommendation("mock-id-1", 85,
                                 "Strong match based on your skills"),
                             Recommendation("mock-id-2", 72,
                                 "Good fit for your background")>>])

(***************************************************************************)
(* apps/ai-engine/main.py: the FastAPI application.                        *)
(*                                                                         *)
(* Line 59 reads "@app:post(...)": the module is no Python program, the    *)
(* interpreter rejects it with a SyntaxError before any route exists.      *)
(***************************************************************************)
EngineImport == "SyntaxError"

EngineMatchSkills(request, seed) ==
    LET student_skills    == LowerSet(request.student_skills)
        internship_skills == LowerSet(request.internship_skills)
        matched     == student_skills \cap internship_skills
        skill_gaps  == internship_skills \ student_skills
        match_score == IF Cardinality(internship_skills) = 0
                       THEN Fraction(0, 1)
                       ELSE Fraction(Cardinality(matched),
                                     Cardinality(internship_skills))
        gap_list    == ListOf(skill_gaps, seed)
        rec0        == <<>>
        rec1        == IF Cardinality(skill_gaps) > 0
                       THEN ListAppend(rec0, ConsiderLearning
                                \o Join(FirstThree(gap_list), CommaSpace))
                       ELSE rec0
        rec2        == IF Above07(match_score) THEN ListAppend(rec1, StrongMatch)
                       ELSE IF Above05(match_score) THEN ListAppend(rec1, GoodMatch)
                       ELSE ListAppend(rec1, FocusFirst)
    IN  Return(MatchPayload(Round2(match_score), ListOf(matched, seed),
                            gap_list, rec2))

EngineGetRecommendations(request) ==
    Return([kind |-> "recommendations",
            items |-> <<Recommendation("mock-id-1", 85,
                            "Strong match based on React and TypeScript skills"),
                        Recommendation("mock-id-2", 72,
                            "Good fit for Python and ML background")>>])

EngineGenerateEmbeddings(text) ==
    Return([kind |-> "embeddings", text |-> text,
            embedding_length |-> 1536, status |-> "generated"])

EngineAnalyzeResume(resume_text) == Return(ResumeAnalysis)

\* The routes of the application, were the module to load.
EngineRoute(path, data, seed) ==
    IF "/api/v1/match/skills" \in path THEN EngineMatchSkills(data, seed)
    ELSE IF "/api/v1/recommendations" \in path THEN EngineGetRecommendations(data)
    ELSE IF "/api/v1/embeddings/generate" \in path
         THEN EngineGenerateEmbeddings(GetText(data))
    ELSE EngineAnalyzeResume(GetText(data))

(***************************************************************************)
(* Requests and responses.                                                 *)
(***************************************************************************)
Request(handler, path, body) ==
    [handler |-> handler, path |-> path, body |-> body]

\* status is 0 when no status line was sent.
Response(status, outcome) ==
    [status |-> status, error |-> outcome.error, payload |-> outcome.value]

NoRequest  == Request("none", {}, EmptyBody)
NoResponse == [status |-> 0, error |-> "none", payload |-> NoPayload]
NoExchange == [req |-> NoRequest, resp |-> NoResponse]

Seeds == 0..(NumSeeds - 1)

BothKeys == {"student_skills", "internship_skills"}

SkillsBody(ss, is) == JsonBody(JObject(BothKeys, ss, is, <<>>))

\* Distinct two-letter skill names: aa, ab, ..., af, ba, ...
SkillName(i) ==
    <<LowerLetters[((i - 1) \div 6) + 1], LowerLetters[((i - 1) % 6) + 1]>>

CapName(i) ==
    <<UpperLetters[((i - 1) \div 6) + 1], LowerLetters[((i - 1) % 6) + 1]>>

\* The candidate holds the first k of the n required skills, every second
\* one capitalised.
SizedBody(k, n) ==
    SkillsBody([i \in 1..k |-> JStr(IF i % 2 = 0 THEN CapName(i) ELSE SkillName(i))],
               [i \in 1..n |-> JStr(SkillName(i))])

SizedBodies == {SizedBody(k, n) : k \in 0..MaxReq, n \in 0..MaxReq}

Py   == <<"p", "y">>
PyUp == <<"P", "y">>
SQL  == <<"S", "Q", "L">>
Sql  == <<"s", "q", "l">>
Go   == <<"g", "o">>
Rust == <<"r", "u", "s", "t">>
CommaSkill == <<"c", ",", " ", "p", "y">>

SmallEntries == {JStr(Py), JStr(PyUp), JStr(SQL)}

SmallLists == UNION {[1..m -> SmallEntries] : m \in 0..MaxLen}

SmallBodies == {SkillsBody(ss, is) : ss \in SmallLists, is \in SmallLists}

\* Objects that lack one of the two fields, or both.
MissingBodies ==
    {JsonBody(JObject({"student_skills"}, l, <<>>, <<>>)) : l \in SmallLists}
    \cup {JsonBody(JObject({"internship_skills"}, <<>>, l, <<>>)) : l \in SmallLists}
    \cup {JsonBody(EmptyObject)}

\* Lists with an entry that is no string.
BadBodies ==
    {SkillsBody(<<JNum>>, <<JStr(Py)>>),
     SkillsBody(<<JStr(Py)>>, <<JStr(Py), JNull>>),
     SkillsBody(<<>>, <<JNum>>),
     JsonBody(JObject({"internship_skills"}, <<>>, <<JStr(SQL), JNum>>, <<>>))}

\* A skill whose own text holds the separator of the gap notice.
OddBodies ==
    {SkillsBody(<<JStr(Py)>>, <<JStr(CommaSkill), JStr(Py), JStr(SQL)>>),
     SkillsBody(<<>>, <<JStr(CommaSkill), JStr(Py), JStr(Go), JStr(Rust), JStr(SQL)>>)}

UndecodedBodies == {EmptyBody, MalformedBody, JsonBody(JArray)}

MatchBodies ==
    SmallBodies \cup MissingBodies \cup BadBodies
    \cup OddBodies \cup UndecodedBodies

TextBody(text) == JsonBody(JObject({"text"}, <<>>, <<>>, text))

StaticBodies ==
    UndecodedBodies
    \cup {JsonBody(EmptyObject), TextBody(Py), TextBody(SQL),
          JsonBody(JObject({"student_skills"}, <<JStr(Py)>>, <<>>, <<>>))}

MatchTargets ==
    {Request("match", {}, EmptyBody),
     Request("web", {"/match/skills"}, EmptyBody),
     Request("web", {"/match/skills", "/recommendations"}, EmptyBody),
     Request("engine", {"/api/v1/match/skills"}, EmptyBody)}

StaticTargets ==
    {Request("recommendations", {}, EmptyBody),
     Request("web", {"/recommendations"}, EmptyBody),
     Request("web", {"/embeddings/generate"}, EmptyBody),
     Request("web", {"/analyze/resume"}, EmptyBody),
     Request("web", {}, EmptyBody),
     Request("engine", {"/api/v1/recommendations"}, EmptyBody),
     Request("engine", {"/api/v1/embeddings/generate"}, EmptyBody),
     Request("engine", {"/api/v1/analyze/resume"}, EmptyBody)}

HistMatchTargets ==
    {Request("match", {}, EmptyBody),
     Request("web", {"/match/skills"}, EmptyBody),
     Request("engine", {"/api/v1/match/skills"}, EmptyBody)}

To(target, body) == Request(target.handler, target.path, body)

Requests ==
    {To(t, b) : t \in MatchTargets, b \in MatchBodies}
    \cup {To(t, b) : t \in HistMatchTargets, b \in SizedBodies}
    \cup {To(t, b) : t \in StaticTargets, b \in StaticBodies}

\* The requests of the observed runs, where two exchanges are compared.
HistMatchBodies ==
    {SkillsBody(ss, is) :
        ss \in {<<>>, <<JStr(Py)>>, <<JStr(PyUp), JStr(Py)>>},
        is \in {<<>>, <<JStr(Py), JStr(Sql)>>,
                <<JStr(SQL), JStr(PyUp), JStr(Sql)>>,
                <<JStr(Go), JStr(Rust), JStr(Py), JStr(Sql), JStr(CommaSkill)>>}}
    \cup {EmptyBody, SkillsBody(<<JNum>>, <<JStr(Py)>>)}

HistStaticBodies ==
    {EmptyBody, JsonBody(JArray), TextBody(Py), TextBody(SQL),
     JsonBody(JObject({"student_skills"}, <<JStr(Py)>>, <<>>, <<>>))}

HistRequests ==
    {To(t, b) : t \in HistMatchTargets, b \in HistMatchBodies}
    \cup {To(t, b) : t \in StaticTargets \ {Request("web", {}, EmptyBody)},
                     b \in HistStaticBodies}

(***************************************************************************)
(* The state machine.  One request is served at a time: it arrives, its    *)
(* handler runs to the end, the response is delivered.  An interpreter     *)
(* that is started anew (a cold start of the function, a restart of the    *)
(* server) draws a new hash salt.                                          *)
(***************************************************************************)
Init ==
    /\ hashSeed \in Seeds
    /\ phase = "idle"
    /\ req = NoRequest
    /\ resp = NoResponse
    /\ prev = NoExchange

Restart ==
    /\ phase = "idle"
    /\ hashSeed' \in Seeds \ {hashSeed}
    /\ UNCHANGED <<phase, req, resp, prev>>

Arrive ==
    /\ phase = "idle"
    /\ req' \in Requests
    /\ phase' = "received"
    /\ UNCHANGED <<hashSeed, resp, prev>>

ArriveObserved ==
    /\ phase = "idle"
    /\ req' \in HistRequests
    /\ phase' = "received"
    /\ UNCHANGED <<hashSeed, resp, prev>>

\* api/ai/match.py handler.do_POST: 200 and the headers go out first.
MatchPost ==
    /\ phase = "received"
    /\ req.handler = "match"
    /\ resp' = Response(200, MatchDoPost(Decode(req.body), hashSeed))
    /\ phase' = "responded"
    /\ UNCHANGED <<hashSeed, req, prev>>

\* api/ai/recommendations.py handler.do_POST
RecommendationsPost ==
    /\ phase = "received"
    /\ req.handler = "recommendations"
    /\ resp' = Response(200, RecommendationsDoPost(Decode(req.body)))
    /\ phase' = "responded"
    /\ UNCHANGED <<hashSeed, req, prev>>

\* apps/web-app/api/ai/index.py handler.do_POST
WebAppPost ==
    /\ phase = "received"
    /\ req.handler = "web"
    /\ resp' = Response(200, WebRoute(req.path, Decode(req.body), hashSeed))
    /\ phase' = "responded"
    /\ UNCHANGED <<hashSeed, req, prev>>

\* apps/ai-engine/main.py: a request to the FastAPI application
EngineRequest ==
    /\ phase = "received"
    /\ req.handler = "engine"
    /\ resp' = IF EngineImport = "ok"
               THEN Response(200, EngineRoute(req.path, Decode(req.body), hashSeed))
               ELSE Response(0, Raise(EngineImport))
    /\ phase' = "responded"
    /\ UNCHANGED <<hashSeed, req, prev>>

Deliver ==
    /\ phase = "responded"
    /\ phase' = "idle"
    /\ req' = NoRequest
    /\ resp' = NoResponse
    /\ UNCHANGED <<hashSeed, prev>>

DeliverObserved ==
    /\ phase = "responded"
    /\ phase' = "idle"
    /\ prev' = [req |-> req, resp |-> resp]
    /\ req' = NoRequest
    /\ resp' = NoResponse
    /\ UNCHANGED hashSeed

Next ==
    \/ Restart
    \/ Arrive
    \/ MatchPost
    \/ RecommendationsPost
    \/ WebAppPost
    \/ EngineRequest
    \/ Deliver

Spec == Init /\ [][Next]_vars

NextObserved ==
    \/ Restart
    \/ ArriveObserved
    \/ MatchPost
    \/ RecommendationsPost
    \/ WebAppPost
    \/ EngineRequest
    \/ DeliverObserved

SpecObserved == Init /\ [][NextObserved]_vars

(***************************************************************************)
(* Vocabulary of the properties, stated on the request as it was sent and  *)
(* the response as it was written.                                         *)
(***************************************************************************)
Responded == phase = "responded"

\* The list a request carries under a field (none when the field is absent).
SentList(r, key) ==
    IF r.body.form = "json" /\ key \in r.body.json.keys
    THEN IF key = "student_skills" THEN r.body.json.student_skills
         ELSE r.body.json.internship_skills
    ELSE <<>>

SentText(r) ==
    IF r.body.form = "json" /\ "text" \in r.body.json.keys
    THEN r.body.json.text ELSE <<>>

\* The two http.server handlers that match skills.
ToHttpMatcher(r) ==
    r.handler = "match" \/ (r.handler = "web" /\ "/match/skills" \in r.path)

ToMatcher(r) ==
    ToHttpMatcher(r)
    \/ (r.handler = "engine" /\ r.path = {"/api/v1/match/skills"})

HasNonText(r) ==
    \E key \in BothKeys : \E i \in DOMAIN SentList(r, key) :
        SentList(r, key)[i].t # "str"

\* Both lists are lists of strings in a JSON object.
WellFormed(r) ==
    /\ r.body.form = "json"
    /\ r.body.json.j = "object"
    /\ BothKeys \subseteq r.body.json.keys
    /\ ~HasNonText(r)

MatchResult(x) == x.payload.kind = "match"

HasMatchResult == Responded /\ MatchResult(resp)

CasePair(c, d) ==
    \E k \in 1..Len(UpperLetters) :
        \/ c = UpperLetters[k] /\ d = LowerLetters[k]
        \/ d = UpperLetters[k] /\ c = LowerLetters[k]

\* Two texts that differ at most in the case of their letters.
EqIgnoreCase(s, t) ==
    /\ Len(s) = Len(t)
    /\ \A i \in 1..Len(s) : s[i] = t[i] \/ CasePair(s[i], t[i])

NoUpper(s) == \A i \in 1..Len(s) : ~IsUpperChar(s[i])

\* The entries of a list, grouped by equality up to case.
Classes(l) == {{j \in DOMAIN l : EqIgnoreCase(l[i].s, l[j].s)} : i \in DOMAIN l}

\* Entry e has a counterpart, up to case, in list l.
Covered(e, l) == \E i \in DOMAIN l : EqIgnoreCase(e.s, l[i].s)

RequiredCount(r) == Cardinality(Classes(SentList(r, "internship_skills")))

MatchedCount(r) ==
    LET is == SentList(r, "internship_skills")
    IN  Cardinality({c \in Classes(is) :
            \E j \in c : Covered(is[j], SentList(r, "student_skills"))})

IsPrefix(p, t) == Len(p) <= Len(t) /\ SubSeq(t, 1, Len(p)) = p

IsGapNotice(t) == IsPrefix(ConsiderLearning, t)

IsTier(t) == t \in {StrongMatch, GoodMatch, FocusFirst}

\* The last entry of the recommendations of a match result.
TierOf(x) == x.payload.recommendations[Len(x.payload.recommendations)]

(***************************************************************************)
(* C1: the reported match_score is 0.0 when the requirement set is empty,  *)
(* and otherwise the hundredth nearest to matched / required, counted on   *)
(* the de-duplicated case-folded skills: within [0, 1] and at most 0.005   *)
(* from the exact ratio.                                                   *)
(***************************************************************************)
ScoreIsRoundedRatio ==
    HasMatchResult =>
        LET n == RequiredCount(req)
            m == MatchedCount(req)
            h == resp.payload.match_score
        IN  /\ h \in 0..100
            /\ n = 0 => h = 0
            /\ n > 0 => /\ 2 * (h * n - 100 * m) <= n
                        /\ 2 * (100 * m - h * n) <= n

\* 3 of 8 required skills matched: 0.375 is reported as 0.38.
ScoreRoundedWitness ==
    /\ HasMatchResult
    /\ RequiredCount(req) = 8
    /\ MatchedCount(req) = 3
    /\ resp.payload.match_score = 38

(***************************************************************************)
(* C2: matched_skills is the intersection and skill_gaps the difference    *)
(* (requirement minus candidate) of the lowercased lists: every reported   *)
(* skill is lowercase and reported once, and two requests that differ only *)
(* in letter case or in repeated entries get the same two sets.            *)
(***************************************************************************)
SetsOfResult(r, x) ==
    LET ss == SentList(r, "student_skills")
        is == SentList(r, "internship_skills")
        matched == x.payload.matched_skills
        gaps    == x.payload.skill_gaps
    IN  /\ \A i \in DOMAIN matched :
              /\ NoUpper(matched[i])
              /\ Covered(JStr(matched[i]), ss)
              /\ Covered(JStr(matched[i]), is)
        /\ \A i \in DOMAIN gaps :
              /\ NoUpper(gaps[i])
              /\ ~Covered(JStr(gaps[i]), ss)
              /\ Covered(JStr(gaps[i]), is)
        /\ \A j \in DOMAIN is :
              IF Covered(is[j], ss)
              THEN \E i \in DOMAIN matched : EqIgnoreCase(matched[i], is[j].s)
              ELSE \E i \in DOMAIN gaps : EqIgnoreCase(gaps[i], is[j].s)
        /\ Cardinality(Range(matched)) = Len(matched)
        /\ Cardinality(Range(gaps)) = Len(gaps)

SameUpToCaseAndRepeats(l1, l2) ==
    /\ \A i \in DOMAIN l1 : Covered(l1[i], l2)
    /\ \A i \in DOMAIN l2 : Covered(l2[i], l1)

CaseVariants(r1, r2) ==
    /\ SameUpToCaseAndRepeats(SentList(r1, "student_skills"),
                              SentList(r2, "student_skills"))
    /\ SameUpToCaseAndRepeats(SentList(r1, "internship_skills"),
                              SentList(r2, "internship_skills"))

MatchedAndGapsAreTheLoweredSets ==
    HasMatchResult =>
        /\ SetsOfResult(req, resp)
        /\ (MatchResult(prev.resp) /\ CaseVariants(prev.req, req)) =>
              /\ Range(resp.payload.matched_skills)
                    = Range(prev.resp.payload.matched_skills)
              /\ Range(resp.payload.skill_gaps)
                    = Range(prev.resp.payload.skill_gaps)

\* ["py"] against ["py", "sql"], then ["Py", "py"] against ["SQL", "Py", "sql"].
CaseVariantsWitness ==
    /\ HasMatchResult
    /\ MatchResult(prev.resp)
    /\ CaseVariants(prev.req, req)
    /\ prev.req.body # req.body
    /\ Len(SentList(req, "internship_skills")) > RequiredCount(req)
    /\ \E i \in DOMAIN SentList(req, "student_skills") :
            ~NoUpper(SentList(req, "student_skills")[i].s)
    /\ Len(resp.payload.matched_skills) = 1
    /\ Len(resp.payload.skill_gaps) = 1

(***************************************************************************)
(* C3 as stated: the tier message goes with the match_score of the same    *)
(* result: Strong exactly when it is above 0.7, Good exactly when it is    *)
(* above 0.5 and at most 0.7, Focus exactly when it is at most 0.5.        *)
(***************************************************************************)
TierFollowsReportedScore ==
    HasMatchResult =>
        LET h == resp.payload.match_score
        IN  /\ TierOf(resp) = StrongMatch <=> h > 70
            /\ TierOf(resp) = GoodMatch <=> (h > 50 /\ h <= 70)
            /\ TierOf(resp) = FocusFirst <=> h <= 50

(***************************************************************************)
(* C4: recommendations holds one or two entries: with gaps, the gap notice *)
(* first and one tier message second; without gaps, one tier message and   *)
(* no gap notice.                                                          *)
(***************************************************************************)
NoticeThenOneTier ==
    HasMatchResult =>
        LET recs == resp.payload.recommendations
        IN  IF Len(resp.payload.skill_gaps) > 0
            THEN /\ Len(recs) = 2
                 /\ IsGapNotice(recs[1]) /\ ~IsTier(recs[1])
                 /\ IsTier(recs[2]) /\ ~IsGapNotice(recs[2])
            ELSE /\ Len(recs) = 1
                 /\ IsTier(recs[1]) /\ ~IsGapNotice(recs[1])

NoticeThenOneTierWitness ==
    /\ HasMatchResult
    /\ Len(resp.payload.skill_gaps) > 0
    /\ Len(resp.payload.matched_skills) > 0
    /\ Len(resp.payload.recommendations) = 2
    /\ resp.payload.recommendations[2] = GoodMatch

(***************************************************************************)
(* C5: with gaps, the gap notice is "Consider learning: " followed by the  *)
(* ", "-joined texts of min(3, number of gaps) pairwise distinct members   *)
(* of skill_gaps, none of them a matched skill, each a lowercased          *)
(* requirement.                                                            *)
(***************************************************************************)
Names(notice, G, count) ==
    \E a \in G :
        /\ IsPrefix(ConsiderLearning \o a, notice)
        /\ \/ count = 1 /\ notice = ConsiderLearning \o a
           \/ /\ count > 1
              /\ \E b \in G \ {a} :
                    /\ IsPrefix(ConsiderLearning \o a \o CommaSpace \o b, notice)
                    /\ \/ /\ count = 2
                          /\ notice = ConsiderLearning \o a \o CommaSpace \o b
                       \/ /\ count = 3
                          /\ \E c \in G \ {a, b} :
                                notice = ConsiderLearning \o a \o CommaSpace
                                            \o b \o CommaSpace \o c

GapNoticeNamesThreeGaps ==
    (HasMatchResult /\ Len(resp.payload.skill_gaps) > 0) =>
        LET G == Range(resp.payload.skill_gaps)
        IN  /\ G \cap Range(resp.payload.matched_skills) = {}
            /\ \A g \in G : Covered(JStr(g), SentList(req, "internship_skills"))
            /\ Names(resp.payload.recommendations[1], G, Min(3, Cardinality(G)))

\* Five gaps, one of them a skill with ", " in its own text.
GapNoticeWitness ==
    /\ HasMatchResult
    /\ Len(resp.payload.skill_gaps) = 5
    /\ CommaSkill \in Range(resp.payload.skill_gaps)
    /\ Len(resp.payload.recommendations) = 2

(***************************************************************************)
(* C6 as stated: the same request served twice gets the same response: the *)
(* same score, the same two lists in the same order, the same              *)
(* recommendations.                                                        *)
(***************************************************************************)
SameRequestSameResponse ==
    (Responded /\ ToHttpMatcher(req) /\ prev.req = req) => resp = prev.resp

(***************************************************************************)
(* C7 as stated: a list entry that is no text ends the match in an         *)
(* InvalidInput error: no match result, and no success status reported.    *)
(***************************************************************************)
NonTextIsRejected ==
    (Responded /\ ToHttpMatcher(req) /\ HasNonText(req)) =>
        /\ ~MatchResult(resp)
        /\ resp.status # 200
        /\ resp.error = "InvalidInput"

(***************************************************************************)
(* C8: a POST to a skill-match handler with an empty body, a body that is  *)
(* no JSON, or a JSON object that lacks one or both lists (the list it     *)
(* holds being a list of strings) ends in a 200 match result, computed     *)
(* with {} for the body and [] for each missing list; with both lists      *)
(* absent the result is 0.0, [], [], ["Focus on building required skills   *)
(* first."].                                                               *)
(***************************************************************************)
LacksAList(r) ==
    /\ r.body.form = "json"
    /\ r.body.json.j = "object"
    /\ ~(BothKeys \subseteq r.body.json.keys)

Recovered(r) == r.body.form \in {"empty", "malformed"} \/ LacksAList(r)

StaticPaths == {{"/recommendations"}, {"/embeddings/generate"}, {"/analyze/resume"}}

ToMockEndpoint(r) ==
    \/ r.handler = "recommendations"
    \/ r.handler = "web" /\ r.path \in StaticPaths

SameEndpoint(r1, r2) == r1.handler = r2.handler /\ r1.path = r2.path

Written(x) == x.payload.kind # "none"

CopiesAgree ==
    (Responded /\ ToMatcher(req) /\ ToMatcher(prev.req)
        /\ WellFormed(req) /\ prev.req.body = req.body) =>
            /\ MatchResult(resp)
            /\ MatchResult(prev.resp)
            /\ resp.payload.match_score = prev.resp.payload.match_score
            /\ Range(resp.payload.matched_skills)
                  = Range(prev.resp.payload.matched_skills)
            /\ Range(resp.payload.skill_gaps)
                  = Range(prev.resp.payload.skill_gaps)
            /\ TierOf(resp) = TierOf(prev.resp)
            /\ Len(resp.payload.recommendations)
                  = Len(prev.resp.payload.recommendations)

====
